---- MODULE Spec2Model ----
(***************************************************************************)
(* whisper-typing: the audio recorder (audio_capture.py) with its          *)
(* background capture thread, the keystroke typer (typer.py), the hotkey   *)
(* application (__main__.py), the window manager's focus_window and the    *)
(* overlay (overlay.py) with its Tk thread.                                *)
(*                                                                         *)
(* Samples are the float values -1.0, 0.0 and 1.0; a chunk is one callback *)
(* block, a non-empty sequence of samples.                                 *)
(***************************************************************************)
EXTENDS Integers, Sequences, FiniteSets, TLC

\* ---------------------------------------------------------------- bounds
MaxFrames == 3
MaxThreads == 2
MaxCalls == 5
MaxFocusCalls == 6
MaxOverlayCalls == 3

\* ------------------------------------------------------------- constants
Int16Scale == 32767
SleepMs == 5

Chunks == { <<1>>, <<0, -1>> }

\* the application never looks into the samples: one block value is enough
AppChunks == { <<1>> }

\* two of the six STYLES
Styles == { "bars", "wave" }

Transcripts == { <<>>, <<"a">>, <<"b", "c">> }

Texts == { <<>>, <<"a">>, <<"o", "k", "!">>,
           <<"H", "i", ".", " ", "Y", "e", "s", "!">> }

VARIABLES
    \* AudioRecorder fields
    recording,      \* self.recording
    frames,         \* self.frames, the queue of chunks
    thread,         \* self.thread: 0 is None, otherwise the thread's id
    tstate,         \* position of each capture thread in _record
    \* the thread that calls start / stop / get_current_data
    pc,             \* "idle", or the position inside stop()
    data,           \* stop()'s local list of collected chunks
    ret,            \* what the last stop / get_current_data returned
    lastOp,         \* the last call made on the recorder, and its branch
    calls,          \* number of calls made on the recorder
    \* history
    appended,       \* chunks delivered since the queue was last emptied
    drainLive,      \* ret is a get_current_data result of the current queue
    staleAtStart,   \* the queue held chunks when the last start() replaced it
    \* Typer
    tpc,            \* "idle", "type" (before keyboard.type), "sleep"
    text,           \* the argument of the running type_text call
    idx,            \* index of the loop's current character
    sinkCalls,      \* characters passed to keyboard.type by this call
    sleeps,         \* time.sleep arguments of this call, in milliseconds
    outcome,        \* "none", "returned", "raised" for the last call
    stop_event,     \* the application's cancellation signal
    focus,          \* whether the target window has focus
    stopAtCall,     \* stop_event was set when type_text was called
    stopDuring,     \* stop_event was set at some point of the call
    focusHeld,      \* focus was never lost during the call
    afterStop,      \* characters passed to the sink with stop_event set
    focusAtCall,    \* the window had focus when type_text was called
    unfocusedCalls, \* sink calls since focus was last lost, while it is lost
    sinkRaised,     \* keyboard.type raised during the call
    \* main(): the closure variables and the two threads of the application
    is_processing,  \* is_processing
    pending_text,   \* pending_text; the empty sequence is None
    hk,             \* position of the hotkey listener thread
    wstate,         \* position of each process_audio worker thread
    waudio,         \* the audio_path each worker was started with
    wrec,           \* the recording (its thread id) each worker belongs to
    produced,       \* texts returned by completed transcriptions, in order
    typed,          \* texts handed to typer.type_text, in order
    lastKey,        \* the last hotkey handled, and the branch it took
    \* WindowManager.focus_window and the window it is given
    isActive,       \* window.isActive
    isMinimized,    \* window.isMinimized
    fpc,            \* "idle", or the position inside focus_window
    fret,           \* "none", "True", "False", or "raised" for the last call
    fwin,           \* the argument of the last call and its state at the call
    restoreCalls,   \* window.restore calls made by the last call
    activateCalls,  \* window.activate calls made by the last call
    fraised,        \* restore or activate raised during the last call
    fcalls,         \* number of focus_window calls made
    \* AudioOverlay fields, its Tk thread and the Tk event queue
    ovRunning,      \* self._running
    ovRoot,         \* self._root is set
    ovVisible,      \* self._visible
    ovRecorder,     \* self._recorder is set
    ovStyle,        \* self._style
    canvasItems,    \* the style self._canvas_items were built for
    tkq,            \* callbacks scheduled with root.after(0, ...), in order
    loopArmed,      \* root.after(33, self._update_loop) is pending
    tkpc,           \* position of the Tk thread
    ocalls,         \* number of calls made on the overlay
    usedAbsent,     \* get_current_data was called on a None recorder
    drewStale       \* a frame was drawn on items built for another style

recVars == <<recording, frames, thread, tstate, pc, data, ret, lastOp, calls,
             appended, drainLive, staleAtStart>>
typVars == <<tpc, text, idx, sinkCalls, sleeps, outcome, stop_event, focus,
             stopAtCall, stopDuring, focusHeld, afterStop, focusAtCall,
             unfocusedCalls, sinkRaised>>
appVars == <<is_processing, pending_text, hk, wstate, waudio, wrec, produced,
             typed, lastKey>>
winVars == <<isActive, isMinimized, fpc, fret, fwin, restoreCalls,
             activateCalls, fraised, fcalls>>
ovVars == <<ovRunning, ovRoot, ovVisible, ovRecorder, ovStyle, canvasItems,
            tkq, loopArmed, tkpc, ocalls, usedAbsent, drewStale>>
extVars == <<winVars, ovVars>>
vars == <<recVars, typVars, appVars, extVars>>

\* ------------------------------------------------------------------ values
ThreadIds == 1..MaxThreads
NoThread == 0

None == [present |-> FALSE, samples |-> <<>>, wav |-> <<>>]

RECURSIVE concatenate(_)
concatenate(chunks) ==
    IF chunks = <<>> THEN <<>>
    ELSE Head(chunks) \o concatenate(Tail(chunks))

astype_int16(arr) == [i \in 1..Len(arr) |-> arr[i] * Int16Scale]

Alive(t) == t # NoThread /\ tstate[t] \in {"open", "loop", "sleep"}
Terminated(t) == t # NoThread /\ tstate[t] \in {"done", "raised"}
StreamOpen == \E t \in ThreadIds : tstate[t] \in {"loop", "sleep"}
Created == {t \in ThreadIds : tstate[t] # "unborn"}

\* -------------------------------------------------------------------- Init
InitRecorder ==
    /\ recording = FALSE
    /\ frames = <<>>
    /\ thread = NoThread
    /\ tstate = [t \in ThreadIds |-> "unborn"]
    /\ pc = "idle"
    /\ data = <<>>
    /\ ret = None
    /\ lastOp = "none"
    /\ calls = 0
    /\ appended = <<>>
    /\ drainLive = FALSE
    /\ staleAtStart = FALSE

InitTyper ==
    /\ tpc = "idle"
    /\ text = <<>>
    /\ idx = 0
    /\ sinkCalls = <<>>
    /\ sleeps = <<>>
    /\ outcome = "none"
    /\ stop_event = FALSE
    /\ focus = TRUE
    /\ stopAtCall = FALSE
    /\ stopDuring = FALSE
    /\ focusHeld = TRUE
    /\ afterStop = 0
    /\ focusAtCall = TRUE
    /\ unfocusedCalls = 0
    /\ sinkRaised = FALSE

InitApp ==
    /\ is_processing = FALSE
    /\ pending_text = <<>>
    /\ hk = "idle"
    /\ wstate = [w \in ThreadIds |-> "unborn"]
    /\ waudio = [w \in ThreadIds |-> None]
    /\ wrec = [w \in ThreadIds |-> NoThread]
    /\ produced = <<>>
    /\ typed = <<>>
    /\ lastKey = "none"

NoWindow == [present |-> FALSE, active |-> FALSE, minimized |-> FALSE]

InitWindow ==
    /\ isActive = TRUE
    /\ isMinimized = FALSE
    /\ fpc = "idle"
    /\ fret = "none"
    /\ fwin = NoWindow
    /\ restoreCalls = 0
    /\ activateCalls = 0
    /\ fraised = FALSE
    /\ fcalls = 0

InitOverlay ==
    /\ ovRunning = FALSE
    /\ ovRoot = FALSE
    /\ ovVisible = FALSE
    /\ ovRecorder = FALSE
    /\ ovStyle = "bars"
    /\ canvasItems = "none"
    /\ tkq = <<>>
    /\ loopArmed = FALSE
    /\ tkpc = "unborn"
    /\ ocalls = 0
    /\ usedAbsent = FALSE
    /\ drewStale = FALSE

Init == InitRecorder /\ InitTyper /\ InitApp /\ InitWindow /\ InitOverlay

\* ------------------------------------------------- AudioRecorder._callback
put_front(queue, chunk) == <<chunk>> \o queue
put_overwrite(queue, chunk) == <<chunk>>
put(queue, chunk) == Append(queue, chunk)

\* the queue holding the stream's own block buffer instead of copies: the
\* next block written into that buffer shows in every chunk queued before
after_block_shared(stored, block) == [i \in 1..Len(stored) |-> block]

\* indata.copy(): a queued chunk owns its samples, so the stream writing
\* the next block into the buffer it reuses leaves the queued chunks alone
after_block(stored, block) == stored

\* The stream's callback thread delivers one block; a test may also call
\* _callback itself while the recorder's caller is between calls.
callback(indata) ==
    /\ StreamOpen \/ pc = "idle"
    /\ Len(appended) < MaxFrames
    /\ frames' = put(after_block(frames, indata), indata)
    /\ appended' = Append(appended, indata)
    /\ UNCHANGED <<recording, thread, tstate, pc, data, ret, lastOp, calls,
                   drainLive>>
    /\ UNCHANGED <<staleAtStart>>
    /\ UNCHANGED typVars
    /\ UNCHANGED appVars
    /\ UNCHANGED extVars

\* --------------------------------------------------- AudioRecorder._record
RecordOpen(t) ==
    /\ tstate[t] = "open"
    /\ tstate' = [tstate EXCEPT ![t] = "loop"]
    /\ UNCHANGED <<recording, frames, thread, pc, data, ret, lastOp, calls,
                   appended, drainLive>>
    /\ UNCHANGED <<staleAtStart>>
    /\ UNCHANGED typVars
    /\ UNCHANGED appVars
    /\ UNCHANGED extVars

\* sd.InputStream(...) raises: nothing in _record catches it
RecordOpenRaises(t) ==
    /\ tstate[t] = "open"
    /\ tstate' = [tstate EXCEPT ![t] = "raised"]
    /\ UNCHANGED <<recording, frames, thread, pc, data, ret, lastOp, calls,
                   appended, drainLive>>
    /\ UNCHANGED <<staleAtStart>>
    /\ UNCHANGED typVars
    /\ UNCHANGED appVars
    /\ UNCHANGED extVars

\* a loop that never looks at the flag
RecordCheck_forever(t) ==
    /\ tstate[t] = "loop"
    /\ tstate' = [tstate EXCEPT ![t] = "sleep"]
    /\ UNCHANGED <<recording, frames, thread, pc, data, ret, lastOp, calls,
                   appended, drainLive>>
    /\ UNCHANGED <<staleAtStart>>
    /\ UNCHANGED typVars
    /\ UNCHANGED appVars
    /\ UNCHANGED extVars

\* while self.recording: the with block closes the stream on exit
RecordCheck(t) ==
    /\ tstate[t] = "loop"
    /\ tstate' = [tstate EXCEPT ![t] = IF recording THEN "sleep" ELSE "done"]
    /\ UNCHANGED <<recording, frames, thread, pc, data, ret, lastOp, calls,
                   appended, drainLive>>
    /\ UNCHANGED <<staleAtStart>>
    /\ UNCHANGED typVars
    /\ UNCHANGED appVars
    /\ UNCHANGED extVars

RecordSleep(t) ==
    /\ tstate[t] = "sleep"
    /\ tstate' = [tstate EXCEPT ![t] = "loop"]
    /\ UNCHANGED <<recording, frames, thread, pc, data, ret, lastOp, calls,
                   appended, drainLive>>
    /\ UNCHANGED <<staleAtStart>>
    /\ UNCHANGED typVars
    /\ UNCHANGED appVars
    /\ UNCHANGED extVars

\* an exception inside the loop leaves the with block and the thread
RecordSleepRaises(t) ==
    /\ tstate[t] = "sleep"
    /\ tstate' = [tstate EXCEPT ![t] = "raised"]
    /\ UNCHANGED <<recording, frames, thread, pc, data, ret, lastOp, calls,
                   appended, drainLive>>
    /\ UNCHANGED <<staleAtStart>>
    /\ UNCHANGED typVars
    /\ UNCHANGED appVars
    /\ UNCHANGED extVars

\* ----------------------------------------------------- AudioRecorder.start
\* start() that forgets the early return and clears the queue again
StartNoop_clears ==
    /\ pc = "idle" /\ calls < MaxCalls
    /\ recording
    /\ lastOp' = "start_noop"
    /\ calls' = calls + 1
    /\ frames' = <<>>
    /\ appended' = <<>>
    /\ drainLive' = FALSE
    /\ UNCHANGED <<recording, thread, tstate, pc, data, ret>>
    /\ UNCHANGED <<staleAtStart>>
    /\ UNCHANGED typVars
    /\ UNCHANGED appVars
    /\ UNCHANGED extVars

StartNoop ==
    /\ pc = "idle" /\ calls < MaxCalls
    /\ recording
    /\ lastOp' = "start_noop"
    /\ calls' = calls + 1
    /\ UNCHANGED <<recording, frames, thread, tstate, pc, data, ret,
                   appended, drainLive>>
    /\ UNCHANGED <<staleAtStart>>
    /\ UNCHANGED typVars
    /\ UNCHANGED appVars
    /\ UNCHANGED extVars

\* start() without "self.frames = queue.Queue()"
StartIdle_keeps ==
    /\ pc = "idle" /\ calls < MaxCalls
    /\ ~recording
    /\ Cardinality(Created) < MaxThreads
    /\ recording' = TRUE
    /\ frames' = frames
    /\ LET t == Cardinality(Created) + 1
       IN /\ thread' = t
          /\ tstate' = [tstate EXCEPT ![t] = "open"]
    /\ lastOp' = "start"
    /\ calls' = calls + 1
    /\ appended' = <<>>
    /\ drainLive' = FALSE
    /\ staleAtStart' = (frames # <<>>)
    /\ UNCHANGED <<pc, data, ret>>
    /\ UNCHANGED typVars
    /\ UNCHANGED appVars
    /\ UNCHANGED extVars

StartIdle ==
    /\ pc = "idle" /\ calls < MaxCalls
    /\ ~recording
    /\ Cardinality(Created) < MaxThreads
    /\ recording' = TRUE
    /\ frames' = <<>>
    /\ LET t == Cardinality(Created) + 1
       IN /\ thread' = t
          /\ tstate' = [tstate EXCEPT ![t] = "open"]
    /\ lastOp' = "start"
    /\ calls' = calls + 1
    /\ appended' = <<>>
    /\ drainLive' = FALSE
    /\ staleAtStart' = (frames # <<>>)
    /\ UNCHANGED <<pc, data, ret>>
    /\ UNCHANGED typVars
    /\ UNCHANGED appVars
    /\ UNCHANGED extVars

\* ------------------------------------------------------ AudioRecorder.stop
\* stop() that forgets the early return and collects the queue anyway
StopNoop_drains ==
    /\ pc = "idle" /\ calls < MaxCalls
    /\ ~recording
    /\ ret' = None
    /\ lastOp' = "stop_noop"
    /\ calls' = calls + 1
    /\ frames' = <<>>
    /\ appended' = <<>>
    /\ drainLive' = FALSE
    /\ UNCHANGED <<recording, thread, tstate, pc, data>>
    /\ UNCHANGED <<staleAtStart>>
    /\ UNCHANGED typVars
    /\ UNCHANGED appVars
    /\ UNCHANGED extVars

StopNoop ==
    /\ pc = "idle" /\ calls < MaxCalls
    /\ ~recording
    /\ ret' = None
    /\ lastOp' = "stop_noop"
    /\ calls' = calls + 1
    /\ drainLive' = FALSE
    /\ UNCHANGED <<recording, frames, thread, tstate, pc, data, appended>>
    /\ UNCHANGED <<staleAtStart>>
    /\ UNCHANGED typVars
    /\ UNCHANGED appVars
    /\ UNCHANGED extVars

\* stop() without "self.recording = False"
StopBegin_keepsFlag ==
    /\ pc = "idle" /\ calls < MaxCalls
    /\ recording
    /\ pc' = "join"
    /\ lastOp' = "stop"
    /\ calls' = calls + 1
    /\ UNCHANGED <<recording, frames, thread, tstate, data, ret, appended,
                   drainLive>>
    /\ UNCHANGED <<staleAtStart>>
    /\ UNCHANGED typVars
    /\ UNCHANGED appVars
    /\ UNCHANGED extVars

StopBegin ==
    /\ pc = "idle" /\ calls < MaxCalls
    /\ recording
    /\ recording' = FALSE
    /\ pc' = "join"
    /\ lastOp' = "stop"
    /\ calls' = calls + 1
    /\ UNCHANGED <<frames, thread, tstate, data, ret, appended, drainLive>>
    /\ UNCHANGED <<staleAtStart>>
    /\ UNCHANGED typVars
    /\ UNCHANGED appVars
    /\ UNCHANGED extVars

\* stop() that does not wait for the thread
StopJoin_nowait ==
    /\ pc = "join"
    /\ pc' = "drain"
    /\ data' = <<>>
    /\ UNCHANGED <<recording, frames, thread, tstate, ret, lastOp, calls,
                   appended, drainLive>>
    /\ UNCHANGED <<staleAtStart>>
    /\ UNCHANGED typVars
    /\ UNCHANGED appVars
    /\ UNCHANGED extVars

\* self.thread.join() returns once the thread has terminated
StopJoin ==
    /\ pc = "join"
    /\ Terminated(thread)
    /\ pc' = "drain"
    /\ data' = <<>>
    /\ UNCHANGED <<recording, frames, thread, tstate, ret, lastOp, calls,
                   appended, drainLive>>
    /\ UNCHANGED <<staleAtStart>>
    /\ UNCHANGED typVars
    /\ UNCHANGED appVars
    /\ UNCHANGED extVars

\* while not self.frames.empty(): data.append(self.frames.get())
StopDrainStep ==
    /\ pc = "drain"
    /\ frames # <<>>
    /\ data' = Append(data, Head(frames))
    /\ frames' = Tail(frames)
    /\ UNCHANGED <<recording, thread, tstate, pc, ret, lastOp, calls,
                   appended, drainLive>>
    /\ UNCHANGED <<staleAtStart>>
    /\ UNCHANGED typVars
    /\ UNCHANGED appVars
    /\ UNCHANGED extVars

\* stop() without the "if not data: return None" check
StopResult_nocheck(collected) ==
    [present |-> TRUE,
     samples |-> concatenate(collected),
     wav |-> astype_int16(concatenate(collected))]

StopResult(collected) ==
    IF collected = <<>> THEN None
    ELSE [present |-> TRUE,
          samples |-> concatenate(collected),
          wav |-> astype_int16(concatenate(collected))]

StopFinish ==
    /\ pc = "drain"
    /\ frames = <<>>
    /\ ret' = StopResult(data)
    /\ pc' = "idle"
    /\ data' = <<>>
    /\ appended' = <<>>
    /\ drainLive' = FALSE
    /\ UNCHANGED <<recording, frames, thread, tstate, lastOp, calls>>
    /\ UNCHANGED <<staleAtStart>>
    /\ UNCHANGED typVars
    /\ UNCHANGED appVars
    /\ UNCHANGED extVars

\* ------------------------------------------ AudioRecorder.get_current_data
CurrentData(queue) ==
    IF queue = <<>> THEN None
    ELSE [present |-> TRUE, samples |-> concatenate(queue), wav |-> <<>>]

\* a read that empties the queue it has read
get_current_data_clears ==
    /\ pc = "idle" /\ calls < MaxCalls
    /\ ret' = CurrentData(frames)
    /\ lastOp' = "get_current_data"
    /\ calls' = calls + 1
    /\ drainLive' = TRUE
    /\ frames' = <<>>
    /\ UNCHANGED <<recording, thread, tstate, pc, data, appended>>
    /\ UNCHANGED <<staleAtStart>>
    /\ UNCHANGED typVars
    /\ UNCHANGED appVars
    /\ UNCHANGED extVars

get_current_data ==
    /\ pc = "idle" /\ calls < MaxCalls
    /\ ret' = CurrentData(frames)
    /\ lastOp' = "get_current_data"
    /\ calls' = calls + 1
    /\ drainLive' = TRUE
    /\ UNCHANGED <<recording, frames, thread, tstate, pc, data, appended>>
    /\ UNCHANGED <<staleAtStart>>
    /\ UNCHANGED typVars
    /\ UNCHANGED appVars
    /\ UNCHANGED extVars

NextRecorder ==
    \/ \E c \in Chunks : callback(c)
    \/ \E t \in ThreadIds : RecordOpen(t)
    \/ \E t \in ThreadIds : RecordOpenRaises(t)
    \/ \E t \in ThreadIds : RecordCheck(t)
    \/ \E t \in ThreadIds : RecordSleep(t)
    \/ \E t \in ThreadIds : RecordSleepRaises(t)
    \/ StartNoop
    \/ StartIdle
    \/ StopNoop
    \/ StopBegin
    \/ StopJoin
    \/ StopDrainStep
    \/ StopFinish
    \/ get_current_data

SpecRecorder == Init /\ [][NextRecorder]_vars

\* The capture thread and the thread inside stop() are operating-system
\* threads: each takes its next step when it can; sd.sleep(100) returns.
SpecRecorderFair ==
    /\ Init /\ [][NextRecorder]_vars
    /\ \A t \in ThreadIds : WF_vars(RecordOpen(t))
    /\ \A t \in ThreadIds : WF_vars(RecordCheck(t))
    /\ \A t \in ThreadIds : WF_vars(RecordSleep(t))
    /\ WF_vars(StopJoin)
    /\ WF_vars(StopDrainStep)
    /\ WF_vars(StopFinish)

\* ---------------------------------------------------------- Typer.type_text
\* The signature is type_text(self, text): the loop has no access to the
\* application's stop_event or to the window focus, which change on their
\* own.
\* type_text with the commented-out leading keyboard.type(' ') enabled
\* ahead of the empty-text check
TypeTextCall_space(t) ==
    /\ tpc = "idle"
    /\ text' = t
    /\ sinkCalls' = <<" ">>
    /\ sleeps' = <<>>
    /\ stopAtCall' = stop_event
    /\ stopDuring' = stop_event
    /\ focusHeld' = focus
    /\ afterStop' = 0
    /\ focusAtCall' = focus
    /\ unfocusedCalls' = 0
    /\ sinkRaised' = FALSE
    /\ IF t = <<>>
         THEN tpc' = "idle" /\ idx' = 0 /\ outcome' = "returned"
         ELSE tpc' = "type" /\ idx' = 1 /\ outcome' = "none"
    /\ UNCHANGED <<stop_event, focus>>
    /\ UNCHANGED recVars
    /\ UNCHANGED appVars
    /\ UNCHANGED extVars

\* entering type_text: "if not text: return", otherwise the loop starts
TypeTextEnter(t) ==
    /\ tpc = "idle"
    /\ text' = t
    /\ sinkCalls' = <<>>
    /\ sleeps' = <<>>
    /\ stopAtCall' = stop_event
    /\ stopDuring' = stop_event
    /\ focusHeld' = focus
    /\ afterStop' = 0
    /\ focusAtCall' = focus
    /\ unfocusedCalls' = 0
    /\ sinkRaised' = FALSE
    /\ IF t = <<>>
         THEN tpc' = "idle" /\ idx' = 0 /\ outcome' = "returned"
         ELSE tpc' = "type" /\ idx' = 1 /\ outcome' = "none"
    /\ UNCHANGED <<stop_event, focus>>

TypeTextCall(t) ==
    /\ TypeTextEnter(t)
    /\ UNCHANGED recVars
    /\ UNCHANGED appVars
    /\ UNCHANGED extVars

\* self.keyboard.type(char) succeeds
KeyboardType ==
    /\ tpc = "type"
    /\ sinkCalls' = Append(sinkCalls, text[idx])
    /\ afterStop' = afterStop + (IF stop_event THEN 1 ELSE 0)
    /\ unfocusedCalls' = unfocusedCalls + (IF focus THEN 0 ELSE 1)
    /\ tpc' = "sleep"
    /\ UNCHANGED <<text, idx, sleeps, outcome, stop_event, focus, stopAtCall,
                   stopDuring, focusHeld, focusAtCall, sinkRaised>>
    /\ UNCHANGED recVars
    /\ UNCHANGED appVars
    /\ UNCHANGED extVars

\* self.keyboard.type(char) raises: nothing in type_text catches it
KeyboardTypeRaises ==
    /\ tpc = "type"
    /\ sinkCalls' = Append(sinkCalls, text[idx])
    /\ afterStop' = afterStop + (IF stop_event THEN 1 ELSE 0)
    /\ unfocusedCalls' = unfocusedCalls + (IF focus THEN 0 ELSE 1)
    /\ sinkRaised' = TRUE
    /\ tpc' = "idle"
    /\ outcome' = "raised"
    /\ UNCHANGED <<text, idx, sleeps, stop_event, focus, stopAtCall,
                   stopDuring, focusHeld, focusAtCall>>
    /\ UNCHANGED recVars
    /\ UNCHANGED appVars
    /\ UNCHANGED extVars

\* time.sleep(0.005) returns; the for loop takes the next character or ends
SleepReturns ==
    /\ tpc = "sleep"
    /\ sleeps' = Append(sleeps, SleepMs)
    /\ IF idx < Len(text)
         THEN tpc' = "type" /\ idx' = idx + 1 /\ outcome' = outcome
         ELSE tpc' = "idle" /\ idx' = idx /\ outcome' = "returned"
    /\ UNCHANGED <<text, sinkCalls, stop_event, focus, stopAtCall,
                   stopDuring, focusHeld, afterStop, focusAtCall,
                   unfocusedCalls, sinkRaised>>
    /\ UNCHANGED recVars
    /\ UNCHANGED appVars
    /\ UNCHANGED extVars

\* the application sets its cancellation signal
SetStopEvent ==
    /\ ~stop_event
    /\ stop_event' = TRUE
    /\ stopDuring' = TRUE
    /\ UNCHANGED <<tpc, text, idx, sinkCalls, sleeps, outcome, focus,
                   stopAtCall, focusHeld, afterStop, focusAtCall,
                   unfocusedCalls, sinkRaised>>
    /\ UNCHANGED recVars
    /\ UNCHANGED appVars
    /\ UNCHANGED extVars

\* between two calls the application clears the signal
ClearStopEvent ==
    /\ stop_event /\ tpc = "idle"
    /\ stop_event' = FALSE
    /\ UNCHANGED <<tpc, text, idx, sinkCalls, sleeps, outcome, focus,
                   stopAtCall, stopDuring, focusHeld, afterStop, focusAtCall,
                   unfocusedCalls, sinkRaised>>
    /\ UNCHANGED recVars
    /\ UNCHANGED appVars
    /\ UNCHANGED extVars

FocusLost ==
    /\ focus
    /\ focus' = FALSE
    /\ focusHeld' = FALSE
    /\ unfocusedCalls' = 0
    /\ UNCHANGED <<tpc, text, idx, sinkCalls, sleeps, outcome, stop_event,
                   stopAtCall, stopDuring, afterStop, focusAtCall,
                   sinkRaised>>
    /\ UNCHANGED recVars
    /\ UNCHANGED appVars
    /\ UNCHANGED extVars

FocusRegained ==
    /\ ~focus
    /\ focus' = TRUE
    /\ unfocusedCalls' = 0
    /\ UNCHANGED <<tpc, text, idx, sinkCalls, sleeps, outcome, stop_event,
                   stopAtCall, stopDuring, focusHeld, afterStop, focusAtCall,
                   sinkRaised>>
    /\ UNCHANGED recVars
    /\ UNCHANGED appVars
    /\ UNCHANGED extVars

NextTyper ==
    \/ \E t \in Texts : TypeTextCall(t)
    \/ KeyboardType
    \/ KeyboardTypeRaises
    \/ SleepReturns
    \/ SetStopEvent
    \/ ClearStopEvent
    \/ FocusLost
    \/ FocusRegained

SpecTyper == Init /\ [][NextTyper]_vars

\* ------------------------------------------------------------------ main()
\* Both hotkey callbacks run on the one GlobalHotKeys listener thread; the
\* recorder and the typer are called from it, process_audio runs on its own
\* thread.
Workers == {w \in ThreadIds : wstate[w] # "unborn"}

\* an on_record_toggle whose busy branch also clears the pending text
ToggleBusy_clears ==
    /\ hk = "idle"
    /\ is_processing
    /\ pending_text' = <<>>
    /\ lastKey' = "record_busy"
    /\ UNCHANGED <<is_processing, hk, wstate, waudio, wrec, produced, typed>>
    /\ UNCHANGED recVars
    /\ UNCHANGED extVars
    /\ UNCHANGED typVars

\* on_record_toggle: "Still processing previous audio, please wait."
ToggleBusy ==
    /\ hk = "idle"
    /\ is_processing
    /\ lastKey' = "record_busy"
    /\ UNCHANGED <<is_processing, pending_text, hk, wstate, waudio, wrec,
                   produced, typed>>
    /\ UNCHANGED recVars
    /\ UNCHANGED extVars
    /\ UNCHANGED typVars

\* an on_record_toggle that starts a recording while a transcription runs
ToggleStartBegin_unlocked ==
    /\ hk = "idle"
    /\ ~recording
    /\ calls < MaxCalls /\ Cardinality(Created) < MaxThreads
    /\ pending_text' = <<>>
    /\ hk' = "start"
    /\ lastKey' = "record_start"
    /\ UNCHANGED <<is_processing, wstate, waudio, wrec, produced, typed>>
    /\ UNCHANGED recVars
    /\ UNCHANGED extVars
    /\ UNCHANGED typVars

\* on_record_toggle, else branch: pending_text = None, then recorder.start()
ToggleStartBegin ==
    /\ hk = "idle"
    /\ ~is_processing
    /\ ~recording
    /\ calls < MaxCalls /\ Cardinality(Created) < MaxThreads
    /\ pending_text' = <<>>
    /\ hk' = "start"
    /\ lastKey' = "record_start"
    /\ UNCHANGED <<is_processing, wstate, waudio, wrec, produced, typed>>
    /\ UNCHANGED recVars
    /\ UNCHANGED extVars
    /\ UNCHANGED typVars

RecorderStart == hk = "start" /\ StartIdle

ToggleStartEnd ==
    /\ hk = "start"
    /\ lastOp = "start"
    /\ hk' = "idle"
    /\ UNCHANGED <<is_processing, pending_text, wstate, waudio, wrec,
                   produced, typed, lastKey>>
    /\ UNCHANGED recVars
    /\ UNCHANGED extVars
    /\ UNCHANGED typVars

\* on_record_toggle, recorder.recording branch: audio_path = recorder.stop()
ToggleStopBegin ==
    /\ hk = "idle"
    /\ ~is_processing
    /\ recording
    /\ calls < MaxCalls
    /\ hk' = "stop"
    /\ lastKey' = "record_stop"
    /\ UNCHANGED <<is_processing, pending_text, wstate, waudio, wrec,
                   produced, typed>>
    /\ UNCHANGED recVars
    /\ UNCHANGED extVars
    /\ UNCHANGED typVars

RecorderStopBegin == hk = "stop" /\ StopBegin
RecorderStopJoin == hk = "stop" /\ StopJoin
RecorderStopDrainStep == hk = "stop" /\ StopDrainStep
RecorderStopFinish == hk = "stop" /\ StopFinish

\* an on_record_toggle without the "if audio_path" test
ToggleStopEnd_always ==
    /\ hk = "stop"
    /\ pc = "idle" /\ lastOp = "stop"
    /\ hk' = "idle"
    /\ LET w == Cardinality(Workers) + 1
       IN /\ is_processing' = TRUE
          /\ wstate' = [wstate EXCEPT ![w] = "transcribe"]
          /\ waudio' = [waudio EXCEPT ![w] = ret]
          /\ wrec' = [wrec EXCEPT ![w] = thread]
    /\ UNCHANGED <<pending_text, produced, typed, lastKey>>
    /\ UNCHANGED recVars
    /\ UNCHANGED extVars
    /\ UNCHANGED typVars

\* if audio_path: is_processing = True; Thread(target=process_audio).start()
ToggleStopEnd ==
    /\ hk = "stop"
    /\ pc = "idle" /\ lastOp = "stop"
    /\ hk' = "idle"
    /\ IF ret.present
         THEN LET w == Cardinality(Workers) + 1
              IN /\ is_processing' = TRUE
                 /\ wstate' = [wstate EXCEPT ![w] = "transcribe"]
                 /\ waudio' = [waudio EXCEPT ![w] = ret]
                 /\ wrec' = [wrec EXCEPT ![w] = thread]
         ELSE UNCHANGED <<is_processing, wstate, waudio, wrec>>
    /\ UNCHANGED <<pending_text, produced, typed, lastKey>>
    /\ UNCHANGED recVars
    /\ UNCHANGED extVars
    /\ UNCHANGED typVars

\* the stream's callback thread, while the stream is open
StreamCallback(indata) == StreamOpen /\ callback(indata)

\* process_audio: text = transcriber.transcribe(audio_path); if text: ...
Transcribe(w, t) ==
    /\ wstate[w] = "transcribe"
    /\ wstate' = [wstate EXCEPT ![w] = "finally"]
    /\ IF t # <<>>
         THEN /\ pending_text' = t
              /\ produced' = Append(produced, t)
         ELSE UNCHANGED <<pending_text, produced>>
    /\ UNCHANGED <<is_processing, hk, waudio, wrec, typed, lastKey>>
    /\ UNCHANGED recVars
    /\ UNCHANGED extVars
    /\ UNCHANGED typVars

\* a process_audio without the finally clause: an exception ends the worker
TranscribeRaises_nofinally(w) ==
    /\ wstate[w] = "transcribe"
    /\ wstate' = [wstate EXCEPT ![w] = "done"]
    /\ UNCHANGED <<is_processing, pending_text, hk, waudio, wrec, produced,
                   typed, lastKey>>
    /\ UNCHANGED recVars
    /\ UNCHANGED extVars
    /\ UNCHANGED typVars

\* transcriber.transcribe raises: except Exception prints the error
TranscribeRaises(w) ==
    /\ wstate[w] = "transcribe"
    /\ wstate' = [wstate EXCEPT ![w] = "finally"]
    /\ UNCHANGED <<is_processing, pending_text, hk, waudio, wrec, produced,
                   typed, lastKey>>
    /\ UNCHANGED recVars
    /\ UNCHANGED extVars
    /\ UNCHANGED typVars

\* finally: is_processing = False
WorkerFinally(w) ==
    /\ wstate[w] = "finally"
    /\ is_processing' = FALSE
    /\ wstate' = [wstate EXCEPT ![w] = "done"]
    /\ UNCHANGED <<pending_text, hk, waudio, wrec, produced, typed, lastKey>>
    /\ UNCHANGED recVars
    /\ UNCHANGED extVars
    /\ UNCHANGED typVars

\* on_type_confirm: "No pending text to type."
TypeConfirmNone ==
    /\ hk = "idle"
    /\ pending_text = <<>>
    /\ lastKey' = "type_none"
    /\ UNCHANGED <<is_processing, pending_text, hk, wstate, waudio, wrec,
                   produced, typed>>
    /\ UNCHANGED recVars
    /\ UNCHANGED extVars
    /\ UNCHANGED typVars

\* on_type_confirm: typer.type_text(pending_text) is entered
TypeConfirmCall ==
    /\ hk = "idle"
    /\ pending_text # <<>>
    /\ TypeTextEnter(pending_text)
    /\ hk' = "type"
    /\ typed' = Append(typed, pending_text)
    /\ lastKey' = "type"
    /\ UNCHANGED <<is_processing, pending_text, wstate, waudio, wrec,
                   produced>>
    /\ UNCHANGED recVars
    /\ UNCHANGED extVars

\* an on_type_confirm that leaves pending_text as it is after typing
TypeConfirmEnd_keeps ==
    /\ hk = "type"
    /\ tpc = "idle"
    /\ hk' = IF outcome = "raised" THEN "dead" ELSE "idle"
    /\ UNCHANGED <<is_processing, pending_text, wstate, waudio, wrec,
                   produced, typed, lastKey>>
    /\ UNCHANGED recVars
    /\ UNCHANGED extVars
    /\ UNCHANGED typVars

\* type_text returned: pending_text = None.  type_text raised: the exception
\* leaves on_type_confirm and ends the listener thread.
TypeConfirmEnd ==
    /\ hk = "type"
    /\ tpc = "idle"
    /\ IF outcome = "raised"
         THEN hk' = "dead" /\ UNCHANGED pending_text
         ELSE hk' = "idle" /\ pending_text' = <<>>
    /\ UNCHANGED <<is_processing, wstate, waudio, wrec, produced, typed,
                   lastKey>>
    /\ UNCHANGED recVars
    /\ UNCHANGED extVars
    /\ UNCHANGED typVars

NextApp ==
    \/ ToggleBusy
    \/ ToggleStartBegin
    \/ RecorderStart
    \/ ToggleStartEnd
    \/ ToggleStopBegin
    \/ RecorderStopBegin
    \/ RecorderStopJoin
    \/ RecorderStopDrainStep
    \/ RecorderStopFinish
    \/ ToggleStopEnd
    \/ \E c \in AppChunks : StreamCallback(c)
    \/ \E t \in ThreadIds : RecordOpen(t)
    \/ \E t \in ThreadIds : RecordOpenRaises(t)
    \/ \E t \in ThreadIds : RecordCheck(t)
    \/ \E t \in ThreadIds : RecordSleep(t)
    \/ \E t \in ThreadIds : RecordSleepRaises(t)
    \/ \E w \in ThreadIds, t \in Transcripts : Transcribe(w, t)
    \/ \E w \in ThreadIds : TranscribeRaises(w)
    \/ \E w \in ThreadIds : WorkerFinally(w)
    \/ TypeConfirmNone
    \/ TypeConfirmCall
    \/ KeyboardType
    \/ KeyboardTypeRaises
    \/ SleepReturns
    \/ TypeConfirmEnd

SpecApp == Init /\ [][NextApp]_vars

\* a worker thread that has left transcribe goes on to its finally clause
SpecAppFair ==
    /\ Init
    /\ [][NextApp]_vars
    /\ \A w \in ThreadIds : WF_vars(WorkerFinally(w))

\* ------------------------------------------------ WindowManager.focus_window
\* focus_window(None): there is no window to focus
FocusWindowNone ==
    /\ fpc = "idle"
    /\ fcalls < MaxFocusCalls
    /\ fcalls' = fcalls + 1
    /\ fwin' = NoWindow
    /\ fret' = "False"
    /\ restoreCalls' = 0 /\ activateCalls' = 0 /\ fraised' = FALSE
    /\ UNCHANGED <<isActive, isMinimized, fpc>>
    /\ UNCHANGED <<recVars, typVars, appVars, ovVars>>

\* focus_window(window): an active window is left alone, a minimized one is
\* restored first, any other is activated
FocusWindowCall ==
    /\ fpc = "idle"
    /\ fcalls < MaxFocusCalls
    /\ fcalls' = fcalls + 1
    /\ fwin' = [present |-> TRUE, active |-> isActive,
                minimized |-> isMinimized]
    /\ restoreCalls' = 0 /\ activateCalls' = 0 /\ fraised' = FALSE
    /\ IF isActive THEN fpc' = "idle" /\ fret' = "True"
       ELSE IF isMinimized THEN fpc' = "restore" /\ fret' = "none"
       ELSE fpc' = "activate" /\ fret' = "none"
    /\ UNCHANGED <<isActive, isMinimized>>
    /\ UNCHANGED <<recVars, typVars, appVars, ovVars>>

WindowRestore ==
    /\ fpc = "restore"
    /\ restoreCalls' = restoreCalls + 1
    /\ isMinimized' = FALSE
    /\ fpc' = "activate"
    /\ UNCHANGED <<isActive, fret, fwin, activateCalls, fraised, fcalls>>
    /\ UNCHANGED <<recVars, typVars, appVars, ovVars>>

\* window.restore raises: focus_window catches it and returns False
WindowRestoreRaises ==
    /\ fpc = "restore"
    /\ restoreCalls' = restoreCalls + 1
    /\ fraised' = TRUE
    /\ fret' = "False"
    /\ fpc' = "idle"
    /\ UNCHANGED <<isActive, isMinimized, fwin, activateCalls, fcalls>>
    /\ UNCHANGED <<recVars, typVars, appVars, ovVars>>

WindowActivate ==
    /\ fpc = "activate"
    /\ activateCalls' = activateCalls + 1
    /\ isActive' = TRUE
    /\ fret' = "True"
    /\ fpc' = "idle"
    /\ UNCHANGED <<isMinimized, fwin, restoreCalls, fraised, fcalls>>
    /\ UNCHANGED <<recVars, typVars, appVars, ovVars>>

\* a focus_window that lets the exception of window.activate through
WindowActivateRaises_propagates ==
    /\ fpc = "activate"
    /\ activateCalls' = activateCalls + 1
    /\ fraised' = TRUE
    /\ fret' = "raised"
    /\ fpc' = "idle"
    /\ UNCHANGED <<isActive, isMinimized, fwin, restoreCalls, fcalls>>
    /\ UNCHANGED <<recVars, typVars, appVars, ovVars>>

\* window.activate raises: focus_window catches it and returns False
WindowActivateRaises ==
    /\ fpc = "activate"
    /\ activateCalls' = activateCalls + 1
    /\ fraised' = TRUE
    /\ fret' = "False"
    /\ fpc' = "idle"
    /\ UNCHANGED <<isActive, isMinimized, fwin, restoreCalls, fcalls>>
    /\ UNCHANGED <<recVars, typVars, appVars, ovVars>>

\* between two calls the user activates another window, or minimizes this one
UserSwitchesAway ==
    /\ fpc = "idle"
    /\ isActive
    /\ isActive' = FALSE
    /\ UNCHANGED <<isMinimized, fpc, fret, fwin, restoreCalls, activateCalls,
                   fraised, fcalls>>
    /\ UNCHANGED <<recVars, typVars, appVars, ovVars>>

UserMinimizes ==
    /\ fpc = "idle"
    /\ ~isMinimized
    /\ isMinimized' = TRUE
    /\ isActive' = FALSE
    /\ UNCHANGED <<fpc, fret, fwin, restoreCalls, activateCalls, fraised,
                   fcalls>>
    /\ UNCHANGED <<recVars, typVars, appVars, ovVars>>

NextWindow ==
    \/ FocusWindowNone
    \/ FocusWindowCall
    \/ WindowRestore
    \/ WindowRestoreRaises
    \/ WindowActivate
    \/ WindowActivateRaises
    \/ UserSwitchesAway
    \/ UserMinimizes

SpecWindow == Init /\ [][NextWindow]_vars

\* ------------------------------------------------------------- AudioOverlay
others == <<recVars, typVars, appVars, winVars>>

\* root.after(0, f) when self._root is set
after0(f) == IF ovRoot THEN Append(tkq, f) ELSE tkq

\* start(): the Tk thread is created
OverlayStart ==
    /\ ~ovRunning
    /\ ovRunning' = TRUE
    /\ tkpc' = "run_tk"
    /\ UNCHANGED <<ovRoot, ovVisible, ovRecorder, ovStyle, canvasItems, tkq,
                   loopArmed, ocalls, usedAbsent, drewStale>>
    /\ UNCHANGED others

\* _run_tk: self._root = tk.Tk()
RunTkRoot ==
    /\ tkpc = "run_tk"
    /\ ovRoot' = TRUE
    /\ tkpc' = "run_tk_build"
    /\ UNCHANGED <<ovRunning, ovVisible, ovRecorder, ovStyle, canvasItems,
                   tkq, loopArmed, ocalls, usedAbsent, drewStale>>
    /\ UNCHANGED others

\* _run_tk: _rebuild_canvas(), withdraw, the first _update_loop(), mainloop
RunTkBuild ==
    /\ tkpc = "run_tk_build"
    /\ canvasItems' = ovStyle
    /\ ovVisible' = FALSE
    /\ loopArmed' = TRUE
    /\ tkpc' = "idle"
    /\ UNCHANGED <<ovRunning, ovRoot, ovRecorder, ovStyle, tkq, ocalls,
                   usedAbsent, drewStale>>
    /\ UNCHANGED others

\* show(recorder), from the application's thread
OverlayShow ==
    /\ ocalls < MaxOverlayCalls
    /\ ocalls' = ocalls + 1
    /\ ovRecorder' = TRUE
    /\ tkq' = after0("do_show")
    /\ UNCHANGED <<ovRunning, ovRoot, ovVisible, ovStyle, canvasItems,
                   loopArmed, tkpc, usedAbsent, drewStale>>
    /\ UNCHANGED others

\* show_processing(), from the application's thread
OverlayShowProcessing ==
    /\ ocalls < MaxOverlayCalls
    /\ ocalls' = ocalls + 1
    /\ ovRecorder' = FALSE
    /\ tkq' = after0("do_show")
    /\ UNCHANGED <<ovRunning, ovRoot, ovVisible, ovStyle, canvasItems,
                   loopArmed, tkpc, usedAbsent, drewStale>>
    /\ UNCHANGED others

\* hide(), from the application's thread
OverlayHide ==
    /\ ocalls < MaxOverlayCalls
    /\ ocalls' = ocalls + 1
    /\ ovRecorder' = FALSE
    /\ tkq' = after0("do_hide")
    /\ UNCHANGED <<ovRunning, ovRoot, ovVisible, ovStyle, canvasItems,
                   loopArmed, tkpc, usedAbsent, drewStale>>
    /\ UNCHANGED others

\* set_style(style), from the application's thread
SetStyle(style) ==
    /\ ocalls < MaxOverlayCalls
    /\ ocalls' = ocalls + 1
    /\ ovStyle' = style
    /\ tkq' = after0("rebuild")
    /\ UNCHANGED <<ovRunning, ovRoot, ovVisible, ovRecorder, canvasItems,
                   loopArmed, tkpc, usedAbsent, drewStale>>
    /\ UNCHANGED others

\* the Tk main loop runs the next scheduled callback:
\* _rebuild_canvas, _do_show or _do_hide
TkCallback ==
    /\ tkpc = "idle"
    /\ tkq # <<>>
    /\ tkq' = Tail(tkq)
    /\ canvasItems' = IF Head(tkq) = "rebuild" THEN ovStyle ELSE canvasItems
    /\ ovVisible' = IF Head(tkq) = "do_show" THEN TRUE
                    ELSE IF Head(tkq) = "do_hide" THEN FALSE
                    ELSE ovVisible
    /\ UNCHANGED <<ovRunning, ovRoot, ovRecorder, ovStyle, loopArmed, tkpc,
                   ocalls, usedAbsent, drewStale>>
    /\ UNCHANGED others

\* _update_loop up to "if self._recorder:"
UpdateLoop ==
    /\ tkpc = "idle"
    /\ loopArmed
    /\ IF ~ovVisible THEN loopArmed' = TRUE /\ tkpc' = "idle"
       ELSE /\ loopArmed' = FALSE
            /\ tkpc' = IF ovRecorder THEN "sample" ELSE "draw"
    /\ UNCHANGED <<ovRunning, ovRoot, ovVisible, ovRecorder, ovStyle,
                   canvasItems, tkq, ocalls, usedAbsent, drewStale>>
    /\ UNCHANGED others

\* _sample_audio: "if not self._recorder: return"
SampleCheck ==
    /\ tkpc = "sample"
    /\ tkpc' = IF ovRecorder THEN "sample_use" ELSE "draw"
    /\ UNCHANGED <<ovRunning, ovRoot, ovVisible, ovRecorder, ovStyle,
                   canvasItems, tkq, loopArmed, ocalls, usedAbsent, drewStale>>
    /\ UNCHANGED others

\* _sample_audio: self._recorder.get_current_data(); on None the
\* AttributeError leaves _update_loop before it re-arms itself
SampleUse ==
    /\ tkpc = "sample_use"
    /\ IF ovRecorder
         THEN tkpc' = "draw" /\ UNCHANGED usedAbsent
         ELSE tkpc' = "idle" /\ usedAbsent' = TRUE
    /\ UNCHANGED <<ovRunning, ovRoot, ovVisible, ovRecorder, ovStyle,
                   canvasItems, tkq, loopArmed, ocalls, drewStale>>
    /\ UNCHANGED others

\* _draw dispatches on self._style and draws on self._canvas_items, then
\* _update_loop re-arms itself
Draw ==
    /\ tkpc = "draw"
    /\ drewStale' = (drewStale \/ canvasItems # ovStyle)
    /\ loopArmed' = TRUE
    /\ tkpc' = "idle"
    /\ UNCHANGED <<ovRunning, ovRoot, ovVisible, ovRecorder, ovStyle,
                   canvasItems, tkq, ocalls, usedAbsent>>
    /\ UNCHANGED others

\* the draw method of one style fails on the items of another: the
\* exception leaves _update_loop before it re-arms itself
DrawRaises ==
    /\ tkpc = "draw"
    /\ canvasItems # ovStyle
    /\ drewStale' = TRUE
    /\ tkpc' = "idle"
    /\ UNCHANGED <<ovRunning, ovRoot, ovVisible, ovRecorder, ovStyle,
                   canvasItems, tkq, loopArmed, ocalls, usedAbsent>>
    /\ UNCHANGED others

NextOverlay ==
    \/ OverlayStart
    \/ RunTkRoot
    \/ RunTkBuild
    \/ OverlayShow
    \/ OverlayShowProcessing
    \/ OverlayHide
    \/ \E style \in Styles : SetStyle(style)
    \/ TkCallback
    \/ UpdateLoop
    \/ SampleCheck
    \/ SampleUse
    \/ Draw
    \/ DrawRaises

SpecOverlay == Init /\ [][NextOverlay]_vars

\* ================================================================ recorder
\* The chunks joined in order, written from the last chunk backwards.
RECURSIVE Joined(_)
Joined(chunks) ==
    IF chunks = <<>> THEN <<>>
    ELSE Joined(SubSeq(chunks, 1, Len(chunks) - 1)) \o chunks[Len(chunks)]

StopReturns == pc = "drain" /\ pc' = "idle"
StartCalled == calls' = calls + 1 /\ lastOp' \in {"start", "start_noop"}
StopCalled == calls' = calls + 1 /\ lastOp' \in {"stop", "stop_noop"}
CurrentDataCalled == calls' = calls + 1 /\ lastOp' = "get_current_data"

\* C1: a drain (the one in stop(), or get_current_data) returns exactly the
\* chunks appended since the queue was last emptied, joined in append order;
\* it is absent exactly when no chunk was appended.
C1_DrainIsConcatenation ==
    [][(StopReturns \/ CurrentDataCalled)
        => /\ ret'.present = (appended # <<>>)
           /\ ret'.samples = Joined(appended)]_vars

\* stop() returned two different chunks in the order they were delivered,
\* after the capture loop saw the cleared flag and closed its stream
C1_Witness ==
    /\ pc = "idle" /\ lastOp = "stop"
    /\ thread # NoThread /\ tstate[thread] = "done"
    /\ ret.present /\ ret.samples = <<0, -1, 1>>

C3_EmptyDrainIsNone ==
    [][((StopReturns /\ data = <<>>) \/ (CurrentDataCalled /\ frames = <<>>))
        => ret' = None]_vars

\* stop() returned None after a recording whose stream opened and closed
\* without any callback
C3_Witness ==
    /\ pc = "idle" /\ lastOp = "stop" /\ ret = None
    /\ thread # NoThread /\ tstate[thread] = "done"

\* C4: stop() while not recording returns None and leaves the flag, the
\* thread and the queue as they were; it does not go on to join.
C4_StopWhenIdleIsNoop ==
    [][(StopCalled /\ ~recording)
        => /\ ret' = None
           /\ pc' = "idle"
           /\ UNCHANGED <<recording, frames, thread, tstate>>]_vars

\* a second stop() after a finished recording, with a chunk in the queue
C4_Witness ==
    /\ lastOp = "stop_noop" /\ frames # <<>>
    /\ thread # NoThread /\ Terminated(thread)

\* C5: start() while recording changes neither the flag, nor the thread
\* reference, nor any thread, nor the queue.
C5_StartWhenRecordingIsNoop ==
    [][(StartCalled /\ recording)
        => UNCHANGED <<recording, frames, thread, tstate>>]_vars

\* start() was called during a recording that already holds chunks
C5_Witness ==
    /\ lastOp = "start_noop" /\ recording /\ frames # <<>> /\ Alive(thread)

\* C6: start() from Idle sets the flag and leaves a live thread; when the
\* following stop() returns the flag is false and that thread has ended;
\* start() and stop() change the flag in no other way.
C6_Lifecycle ==
    [][/\ (StartCalled /\ ~recording)
            => /\ recording'
               /\ thread' # NoThread
               /\ tstate'[thread'] \in {"open", "loop", "sleep"}
       /\ StopReturns
            => /\ ~recording'
               /\ thread' = thread
               /\ tstate'[thread] \in {"done", "raised"}
       /\ (recording' # recording)
            => \/ StartCalled /\ ~recording /\ recording'
               \/ StopCalled /\ recording /\ ~recording']_vars

\* a recording was started and stopped and its thread ended normally
C6_Witness ==
    /\ pc = "idle" /\ lastOp = "stop" /\ ~recording
    /\ thread # NoThread /\ tstate[thread] = "done"
    /\ ret.present

\* C7: an exception raised while opening the stream or in the capture loop
\* does not leave _record, and the recording flag is false once the capture
\* thread has ended.
C7_CaptureExceptionCaught ==
    /\ \A t \in ThreadIds : tstate[t] # "raised"
    /\ (thread # NoThread /\ Terminated(thread)) => ~recording

\* C15: start() from Idle replaces the queue, so what a stop() returns is
\* made of the chunks appended since the most recent start() and of nothing
\* the queue held before it.
C15_StartResetsBuffer ==
    [][/\ (StartCalled /\ ~recording) => (frames' = <<>> /\ data' = <<>>)
       /\ StopReturns
            => /\ ret'.samples = Joined(appended)
               /\ (staleAtStart /\ appended = <<>>) => ret' = None]_vars

\* a recording that was started on a queue holding a chunk has been stopped
\* and returned the one chunk delivered during it
C15_Witness ==
    /\ pc = "idle" /\ lastOp = "stop"
    /\ staleAtStart
    /\ ret.present /\ ret.samples = <<1>>

C18_StopOrder ==
    /\ pc = "join" => ~recording
    /\ pc = "drain" => /\ ~recording
                       /\ Terminated(thread)
                       /\ ~StreamOpen
                       /\ data \o frames = appended

\* the drain is half way through the chunks of a recording whose loop ended
C18_Witness ==
    /\ pc = "drain" /\ data # <<>> /\ frames # <<>>
    /\ tstate[thread] = "done"

\* C19: once stop() has cleared the flag and waits in join, the loop leaves
\* its while, the thread ends, and stop() returns.
C19_StopTerminates == (pc = "join") ~> (pc = "idle")

\* join has returned because the loop saw the cleared flag
C19_Witness ==
    /\ pc = "drain" /\ data = <<>> /\ tstate[thread] = "done"
    /\ ~recording

\* C20: a callback adds exactly one chunk, equal to its block, at the tail
\* of the queue; no step changes a chunk that stays in the queue or in the
\* list stop() collects.
C20_ChunksAreCopies ==
    [][/\ (appended' # appended /\ appended' # <<>>)
            => /\ Len(frames') = Len(frames) + 1
               /\ frames'[Len(frames')] = appended'[Len(appended')]
       /\ \/ frames' = <<>>
          \/ /\ Len(frames') >= Len(frames)
             /\ SubSeq(frames', 1, Len(frames)) = frames
          \/ /\ Len(frames') < Len(frames)
             /\ frames' = SubSeq(frames, Len(frames) - Len(frames') + 1,
                                 Len(frames))
       /\ \/ data' = <<>>
          \/ /\ Len(data') >= Len(data)
             /\ SubSeq(data', 1, Len(data)) = data]_vars

\* the open stream has delivered a second, different block while the first
\* chunk is still queued
C20_Witness ==
    /\ StreamOpen /\ Len(frames) = 2 /\ frames[1] # frames[2]
    /\ frames = appended

\* C24: at most one capture thread is alive at any time, and none is alive
\* once stop() on an active recording has returned (the caller is back from
\* stop() and the flag is clear).
C24_OneCaptureThread ==
    /\ Cardinality({t \in ThreadIds : Alive(t)}) <= 1
    /\ (pc = "idle" /\ ~recording) => \A t \in ThreadIds : ~Alive(t)
    /\ \A t \in ThreadIds : Alive(t) => t = thread

\* the second recording's thread runs with its stream open, the first one's
\* has ended
C24_Witness ==
    /\ thread = 2 /\ tstate[2] = "sleep" /\ Terminated(1)
    /\ recording /\ pc = "idle"

\* =================================================================== typer
TypeTextEnded == tpc = "idle" /\ outcome \in {"returned", "raised"}

\* C8: a type_text call on a non-empty text, with no stop signal and with
\* focus held throughout, has made exactly one sink call per character of
\* the text, in text order, when it ends.
C8_EmitsEveryCharacter ==
    (TypeTextEnded /\ text # <<>> /\ ~stopDuring /\ focusHeld)
        => sinkCalls = text

\* C9: a type_text call made with stop_event already set passes no
\* character to the sink.
C9_StopBeforeCallEmitsNothing ==
    stopAtCall => sinkCalls = <<>>

\* C10: at most one character is passed to the sink once stop_event is set,
\* and the characters passed are a prefix of the text.
C10_StopCheckedPerCharacter ==
    /\ afterStop <= 1
    /\ Len(sinkCalls) <= Len(text)
    /\ sinkCalls = SubSeq(text, 1, Len(sinkCalls))

\* C11: a call made without focus passes no character to the sink, and once
\* focus is lost at most the one character already past its check follows.
C11_StopsOnFocusLoss ==
    /\ ~focusAtCall => sinkCalls = <<>>
    /\ unfocusedCalls <= 1

\* C12: a sink exception does not leave type_text, and the call still
\* passes every character of the text to the sink, in order.
C12_SinkExceptionCaughtPerCharacter ==
    /\ outcome # "raised"
    /\ (sinkRaised /\ tpc = "idle" /\ ~stopDuring /\ focusHeld)
          => sinkCalls = text

\* C13: type_text on an empty text (the branch "not text", which an absent
\* text takes too) returns at once: no sink call and no sleep.
C13_EmptyTextIsNoop ==
    text = <<>> => /\ tpc = "idle"
                   /\ outcome # "raised"
                   /\ sinkCalls = <<>>
                   /\ sleeps = <<>>

\* type_text("") has returned, with no sink call and no sleep logged
C13_Witness ==
    /\ text = <<>> /\ outcome = "returned" /\ tpc = "idle"
    /\ sinkCalls = <<>> /\ sleeps = <<>>

\* the sentence-ending punctuation characters
SentenceEnd == {".", "!", "?"}

\* C21: every emitted character but the last is followed by a delay before
\* the next one is emitted, and the delay that follows a sentence-ending
\* punctuation character is longer than the base delay.
C21_DelayAndPunctuationPause ==
    /\ Len(sleeps) >= Len(sinkCalls) - 1
    /\ \A i \in 1..Len(sleeps) :
         (i < Len(sinkCalls) /\ sinkCalls[i] \in SentenceEnd)
            => sleeps[i] > SleepMs

\* ------------------------------------------------------------ application
RECURSIVE IsSubseq(_, _)
IsSubseq(a, b) ==
    IF a = <<>> THEN TRUE
    ELSE IF b = <<>> THEN FALSE
    ELSE IF Head(a) = Head(b) THEN IsSubseq(Tail(a), Tail(b))
    ELSE IsSubseq(a, Tail(b))

\* C14: every text handed to the typer is matched by a transcription of its
\* own that produced it (so a pending text is typed at most once); after a
\* type hotkey that typed, the pending text is cleared; and from the start
\* of a recording on, for as long as it runs, there is no pending text.
C14_PendingTypedAtMostOnce ==
    /\ IsSubseq(typed, produced)
    /\ (lastKey = "type" /\ hk = "idle") => pending_text = <<>>
    /\ (hk = "start" \/ recording) => pending_text = <<>>

\* the first transcription was never typed because the second recording
\* was started; the second one was typed, and the type hotkey pressed after
\* that found nothing to type
C14_Witness ==
    /\ Len(produced) = 2 /\ produced[1] # produced[2]
    /\ typed = <<produced[2]>>
    /\ lastKey = "type_none" /\ hk = "idle"
    /\ pending_text = <<>>

\* stop() has returned inside the record hotkey that called it
StopReturned == hk = "stop" /\ pc = "idle" /\ lastOp = "stop"

\* C17: stop -> drain -> transcription -> pending text -> typing.  A
\* transcription belongs to a recording that was stopped and drained, has a
\* present drain result, and is the only one of its recording; a pending
\* text is the latest text a completed transcription returned; the typer
\* only gets such texts; and once stop() has returned inside a record
\* hotkey nothing drains again within that hotkey.
C17_StopDrainTranscribeType ==
    /\ [](/\ \A w \in Workers :
               /\ waudio[w].present
               /\ wrec[w] \in Created
               /\ wrec[w] = thread => (~recording /\ lastOp = "stop"
                                        /\ pc = "idle" /\ frames = <<>>)
               /\ \A v \in Workers : wrec[v] = wrec[w] => v = w
          /\ Len(produced)
               <= Cardinality({w \in Workers : wstate[w] \in {"finally", "done"}})
          /\ pending_text # <<>>
               => (produced # <<>> /\ pending_text = produced[Len(produced)])
          /\ \A i \in 1..Len(typed) :
               \E j \in 1..Len(produced) : typed[i] = produced[j]
          /\ hk = "type" => (typed # <<>> /\ text = typed[Len(typed)]))
    /\ [][StopReturned => (/\ UNCHANGED <<pc, frames, ret, data>>
                           /\ ret.present = (wstate' # wstate))]_vars

\* two recordings were each stopped, drained and transcribed, and the text
\* of the second has been typed to the end
C17_Witness ==
    /\ Cardinality(Workers) = 2
    /\ \A w \in Workers : wstate[w] = "done"
    /\ typed = << <<"b", "c">> >>
    /\ hk = "idle" /\ lastKey = "type" /\ outcome = "returned"

\* a step of process_audio that assigns pending_text
WorkerWrites(w) ==
    /\ wstate[w] = "transcribe" /\ wstate'[w] = "finally"
    /\ pending_text' # pending_text

\* C23: a pending text is the text the worker of the latest recording
\* produced, and that recording has been stopped; a worker assigns
\* pending_text only while its own recording is still the latest one and no
\* record hotkey is about to start another; and the recorder never records
\* while a worker has not yet reset is_processing.
C23_PendingIsLatestRecording ==
    /\ [](/\ pending_text # <<>> =>
               /\ ~recording /\ hk # "start"
               /\ produced # <<>> /\ pending_text = produced[Len(produced)]
               /\ \E w \in Workers : /\ wrec[w] = thread
                                     /\ wstate[w] \in {"finally", "done"}
          /\ \A w \in Workers :
               wstate[w] \in {"transcribe", "finally"}
                  => (is_processing /\ ~recording /\ wrec[w] = thread
                      /\ hk \notin {"start", "stop"}))
    /\ [][\A w \in ThreadIds :
            WorkerWrites(w) => (wrec[w] = thread /\ ~recording
                                /\ hk # "start"
                                /\ pending_text' = produced'[Len(produced')])]_vars

\* the worker of the second recording has assigned the pending text and has
\* not yet reset is_processing
C23_Witness ==
    /\ thread = 2 /\ ~recording
    /\ \E w \in Workers : wrec[w] = 2 /\ wstate[w] = "finally"
    /\ pending_text = <<"b", "c">> /\ Len(produced) = 2
    /\ is_processing

\* a record hotkey is handled: on_record_toggle takes one of its branches
RecordPressed ==
    /\ hk = "idle"
    /\ lastKey' \in {"record_busy", "record_start", "record_stop"}
    /\ \/ lastKey' # lastKey
       \/ hk' # hk
       \/ (pending_text' # pending_text /\ wstate' = wstate)

\* C25: a record hotkey handled while is_processing is true leaves the
\* recorder, the workers, pending_text and is_processing as they are, and
\* the listener thread is free again at once.
C25_BusyToggleChangesNothing ==
    [][(is_processing /\ RecordPressed)
         => /\ UNCHANGED recVars
            /\ UNCHANGED <<is_processing, pending_text, hk, wstate, waudio,
                           wrec, produced, typed>>
            /\ lastKey' = "record_busy"]_vars

\* the record hotkey was pressed after the worker had assigned the pending
\* text and before it reset is_processing
C25_Witness ==
    /\ lastKey = "record_busy" /\ is_processing
    /\ pending_text # <<>>
    /\ ~recording /\ hk = "idle"

\* C26: a worker that has left transcribe (with a text, with no text or by
\* an exception) resets is_processing; it ends only through that reset; and
\* when transcribe raised or returned no text it leaves pending_text as it
\* was.
C26_WorkerResetsIsProcessing ==
    /\ \A w \in ThreadIds : (wstate[w] = "finally") ~> ~is_processing
    /\ [][\A w \in ThreadIds :
             /\ (wstate[w] = "transcribe" /\ wstate'[w] # "transcribe")
                   => /\ wstate'[w] = "finally"
                      /\ produced' = produced => pending_text' = pending_text
             /\ (wstate[w] # "done" /\ wstate'[w] = "done")
                   => (wstate[w] = "finally" /\ ~is_processing')]_vars

\* a worker whose transcribe gave no text has ended, is_processing is reset
\* and the record hotkey has started the next recording
C26_Witness ==
    /\ Cardinality(Workers) = 1 /\ wstate[1] = "done"
    /\ produced = <<>> /\ ~is_processing
    /\ thread = 2 /\ recording

\* ---------------------------------------------------------- window manager
\* C22: focus_window never raises; it returns False for an absent window
\* and when restore or activate raised; it returns True without calling
\* activate for a window that is already active; and for a minimized,
\* inactive window it calls restore and activate once each and returns True.
C22_FocusWindow ==
    /\ fret # "raised"
    /\ (fpc = "idle" /\ fcalls > 0) =>
         /\ ~fwin.present => (fret = "False" /\ restoreCalls = 0
                                /\ activateCalls = 0)
         /\ fraised => fret = "False"
         /\ (fwin.present /\ fwin.active)
               => (fret = "True" /\ activateCalls = 0 /\ restoreCalls = 0)
         /\ (fwin.present /\ ~fwin.active /\ fwin.minimized /\ ~fraised)
               => (fret = "True" /\ restoreCalls = 1 /\ activateCalls = 1)

\* after a call that activated a minimized window, the user minimized it
\* again and the next call's activate raised
C22_Witness ==
    /\ fpc = "idle" /\ fcalls = 2
    /\ fwin.present /\ fwin.minimized /\ ~fwin.active
    /\ restoreCalls = 1 /\ activateCalls = 1
    /\ fraised /\ fret = "False"

\* ------------------------------------------------------------------ overlay
\* C27: the update loop never calls get_current_data on an absent recorder.
C27_NeverUsesAbsentRecorder == ~usedAbsent

\* C28: every frame is drawn on canvas items built for the style it is
\* drawn with.
C28_DrawsOnItemsOfItsStyle == ~drewStale

TypeOK ==
    /\ recording \in BOOLEAN
    /\ thread \in 0..MaxThreads
    /\ pc \in {"idle", "join", "drain"}
    /\ calls \in 0..MaxCalls
====
